---- MODULE Spec2Model ----
(***************************************************************************)
(* Model of manim's EventDispatcher                                        *)
(* (src/manim/event_handler/event_dispatcher.py).                          *)
(*                                                                         *)
(* The dispatcher keeps a registry of listeners per event type, the last   *)
(* mouse point, the last drag point, the set of pressed keys and the list  *)
(* of drag listeners captured by the last mouse press.  dispatch() first   *)
(* updates that state and then walks the listeners of the event, calling   *)
(* their callbacks until one of them returns False.                        *)
(*                                                                         *)
(* dispatch() is modelled one loop iteration at a time (pc, idx), because  *)
(* callbacks run in the middle of it and observe the dispatcher.  No       *)
(* other operation starts while a dispatch is running (the program is      *)
(* single threaded).  Callbacks are arbitrary functions: each invocation   *)
(* returns any value of RetVals or raises.  The callbacks of Spec do not   *)
(* call back into the dispatcher.                                          *)
(*                                                                         *)
(* EventType, EventListner and Mobject.is_point_touching are defined in    *)
(* other files of the repository; they are modelled from what the          *)
(* dispatcher uses of them: the six event types and the prefix of their    *)
(* values, listeners compared by their three fields, and a fixed geometry  *)
(* of two mobjects and two points.                                         *)
(*                                                                         *)
(* call, pre, invoked and press_state are history variables: they record   *)
(* what the call in progress was given, found, and called, and are reset   *)
(* when the host goes on to its next call.                                 *)
(***************************************************************************)
EXTENDS Integers, Sequences, FiniteSets

(***************************************************************************)
(* Bounds and finite domains                                               *)
(***************************************************************************)
\* add_listener is offered only while the registry holds fewer listeners.
MaxListeners == 2

MouseMotionEvent == "mouse_motion_event"
MousePressEvent == "mouse_press_event"
MouseReleaseEvent == "mouse_release_event"
MouseDragEvent == "mouse_drag_event"
KeyPressEvent == "key_press_event"
KeyReleaseEvent == "key_release_event"

\* The members of the EventType enumeration (their values are the strings).
EventType ==
  {MouseMotionEvent, MousePressEvent, MouseReleaseEvent, MouseDragEvent,
   KeyPressEvent, KeyReleaseEvent}

\* event_type.value.startswith("mouse")
StartsWithMouse(event_type) ==
  event_type \in {MouseMotionEvent, MousePressEvent, MouseReleaseEvent, MouseDragEvent}

\* event_type.value.startswith("key")
StartsWithKey(event_type) ==
  event_type \in {KeyPressEvent, KeyReleaseEvent}

Origin == <<0, 0, 0>>
FarPoint == <<5, 5, 0>>
Points == {Origin, FarPoint}
Symbols == {"a", "b"}
Mobjects == {"T1", "T2"}
Callbacks == {"cb"}

\* event_data, the keyword arguments of dispatch, is a record; a caller that
\* leaves out point or symbol passes only its other keywords.
NoData == [modifiers |-> "none"]
HasKey(data, key) == key \in DOMAIN data

\* mobject.is_point_touching(point): T1 covers only the origin, T2 covers
\* both points.
IsPointTouching(mobject, point) ==
  \/ mobject = "T1" /\ point = Origin
  \/ mobject = "T2" /\ point \in {Origin, FarPoint}

\* EventListner values; two listeners are equal when their three fields are.
EventListner == [event_type : EventType, mobject : Mobjects, callback : Callbacks]

\* What one invocation of a callback can give back: None, True, False or a
\* value that is falsy without being False (0); or it raises.
None == "None"
RetVals == {None, "True", "False", "Zero"}
Raise == "Raise"

(***************************************************************************)
(* State                                                                   *)
(***************************************************************************)
VARIABLES
  event_listeners,             \* self.event_listeners: EventType -> list
  mouse_point,                 \* self.mouse_point
  mouse_drag_point,            \* self.mouse_drag_point
  pressed_keys,                \* self.pressed_keys
  draggable_object_listeners,  \* self.draggable_object_listeners
  pc,                          \* where the host is: "idle" between calls,
                               \* "loop" inside dispatch's for loop, "done"
                               \* when a call has just returned or raised
  idx,                         \* position of dispatch's list iterator
  propagate_event,             \* dispatch's local propagate_event
  call,                        \* history: the call that is running or done
  pre,                         \* history: the registry and the pressed keys
                               \* when that call began
  invoked,                     \* history: callbacks invoked by that dispatch
  press_state                  \* history: "fresh" until the first press or
                               \* release, then "pressed" or "released",
                               \* whichever was dispatched last

vars ==
  <<event_listeners, mouse_point, mouse_drag_point, pressed_keys,
    draggable_object_listeners, pc, idx, propagate_event, call, pre,
    invoked, press_state>>

\* What pre keeps of the dispatcher.
Before == [event_listeners |-> event_listeners, pressed_keys |-> pressed_keys]

\* The dispatcher's fields as one record.
Self ==
  [event_listeners |-> event_listeners,
   mouse_point |-> mouse_point,
   mouse_drag_point |-> mouse_drag_point,
   pressed_keys |-> pressed_keys,
   draggable_object_listeners |-> draggable_object_listeners]

NoCall == [op |-> "none"]

(***************************************************************************)
(* Pure helpers                                                            *)
(***************************************************************************)
RECURSIVE SumLen(_, _)
SumLen(listeners, types) ==
  IF types = {} THEN 0
  ELSE LET t == CHOOSE x \in types : TRUE
       IN Len(listeners[t]) + SumLen(listeners, types \ {t})

\* get_listeners_count
GetListenersCount(listeners) == SumLen(listeners, DOMAIN listeners)

\* x in list
ListContains(list, x) == \E i \in 1..Len(list) : list[i] = x

\* The number of elements of list equal to x.
Occurrences(list, x) == Cardinality({i \in 1..Len(list) : list[i] = x})

\* A plausible slip: removal by moving the last element into the hole.
ListRemoveSwap(list, x) ==
  IF ListContains(list, x)
  THEN LET i == CHOOSE k \in 1..Len(list) :
                  list[k] = x /\ \A j \in 1..(k - 1) : list[j] # x
           last == list[Len(list)]
       IN [raised |-> FALSE,
           list |-> IF i = Len(list) THEN SubSeq(list, 1, i - 1)
                    ELSE SubSeq(list, 1, i - 1) \o <<last>>
                           \o SubSeq(list, i + 1, Len(list) - 1)]
  ELSE [raised |-> TRUE, list |-> list]

\* list.remove(x): drops the first element equal to x, raises ValueError
\* when there is none.
ListRemove(list, x) ==
  IF ListContains(list, x)
  THEN LET i == CHOOSE k \in 1..Len(list) :
                  list[k] = x /\ \A j \in 1..(k - 1) : list[j] # x
       IN [raised |-> FALSE,
           list |-> SubSeq(list, 1, i - 1) \o SubSeq(list, i + 1, Len(list))]
  ELSE [raised |-> TRUE, list |-> list]

\* A plausible slip: if in place of while, one removal at most.
RemoveIf(list, x) ==
  IF ListContains(list, x) THEN ListRemove(list, x)
  ELSE [raised |-> FALSE, list |-> list]

\* while x in list: list.remove(x)
RECURSIVE RemoveWhile(_, _)
RemoveWhile(list, x) ==
  IF ListContains(list, x)
  THEN LET r == ListRemove(list, x)
       IN IF r.raised THEN r ELSE RemoveWhile(r.list, x)
  ELSE [raised |-> FALSE, list |-> list]

\* A plausible slip: a bare list.remove(x), whose ValueError for a listener
\* that is not in the list reaches the caller.
TryRemoveOnce(list, x) == ListRemove(list, x)

\* The try block of remove_listener: the loop, with any exception swallowed.
TryRemove(list, x) ==
  LET r == RemoveWhile(list, x)
  IN [raised |-> FALSE, list |-> r.list]

\* remove_listener on the registry: the list of the listener's event type
\* is the only one touched.
RemoveListener(listeners, event_listener) ==
  LET r == TryRemove(listeners[event_listener.event_type], event_listener)
  IN [raised |-> r.raised,
      listeners |-> [listeners EXCEPT ![event_listener.event_type] = r.list]]

\* A plausible slip: add_listener refusing a listener that is already there.
AddListenerUnique(listeners, event_listener) ==
  IF ListContains(listeners[event_listener.event_type], event_listener)
  THEN listeners
  ELSE [listeners EXCEPT ![event_listener.event_type] = Append(@, event_listener)]

\* self.event_listeners[event_listener.event_type].append(event_listener)
AddListener(listeners, event_listener) ==
  [listeners EXCEPT ![event_listener.event_type] = Append(@, event_listener)]

\* The list comprehension of the MousePressEvent branch.
DragCapture(listeners, point) ==
  SelectSeq(listeners[MouseDragEvent],
            LAMBDA listener : IsPointTouching(listener.mobject, point))

\* A plausible slip: the press hit-test made against the point of the press.
PressPointPayload(self, data) ==
  IF HasKey(data, "point") THEN data.point ELSE self.mouse_point

\* The point the MousePressEvent branch hit-tests against: self.mouse_point.
PressPoint(self, data) == self.mouse_point

\* A plausible slip: the release leaving the captured listeners in place.
ReleasedListenersKept(self) == self.draggable_object_listeners

\* self.draggable_object_listeners = [] of the MouseReleaseEvent branch.
ReleasedListeners(self) == <<>>

\* A plausible slip: set.difference, which builds a new set and leaves
\* pressed_keys as it was.
KeysAfterReleaseNoUpdate(keys, symbol) == keys

\* self.pressed_keys.difference_update({symbol})
KeysAfterRelease(keys, symbol) == keys \ {symbol}

\* A plausible slip: the pressed key replacing the set.
KeysAfterPressOnly(keys, symbol) == {symbol}

\* self.pressed_keys.add(symbol)
KeysAfterPress(keys, symbol) == keys \cup {symbol}

\* A plausible slip: the drag branch, copied from the motion branch, still
\* assigning mouse_point.
AfterDragWrongField(self, point) == [self EXCEPT !.mouse_point = point]

\* self.mouse_drag_point = event_data["point"]
AfterDrag(self, point) == [self EXCEPT !.mouse_drag_point = point]

\* A plausible slip: the motion branch keeping the drag point in step.
AfterMotionBoth(self, point) ==
  [self EXCEPT !.mouse_point = point, !.mouse_drag_point = point]

\* self.mouse_point = event_data["point"]
AfterMotion(self, point) == [self EXCEPT !.mouse_point = point]

\* A plausible slip: event_data.get(...) with the assignment left out when
\* the keyword is missing, so that a dispatch without it goes on to the loop.
StateUpdateLenient(self, event_type, data) ==
  IF event_type = MouseMotionEvent /\ HasKey(data, "point")
  THEN [raised |-> FALSE, self |-> AfterMotion(self, data.point)]
  ELSE IF event_type = MouseDragEvent /\ HasKey(data, "point")
  THEN [raised |-> FALSE, self |-> AfterDrag(self, data.point)]
  ELSE IF event_type = KeyPressEvent /\ HasKey(data, "symbol")
  THEN [raised |-> FALSE,
        self |-> [self EXCEPT !.pressed_keys = KeysAfterPress(@, data.symbol)]]
  ELSE IF event_type = KeyReleaseEvent /\ HasKey(data, "symbol")
  THEN [raised |-> FALSE,
        self |-> [self EXCEPT !.pressed_keys = KeysAfterRelease(@, data.symbol)]]
  ELSE IF event_type = MousePressEvent
  THEN [raised |-> FALSE,
        self |-> [self EXCEPT !.draggable_object_listeners =
                    DragCapture(self.event_listeners, PressPoint(self, data))]]
  ELSE IF event_type = MouseReleaseEvent
  THEN [raised |-> FALSE,
        self |-> [self EXCEPT !.draggable_object_listeners =
                    ReleasedListeners(self)]]
  ELSE [raised |-> FALSE, self |-> self]

\* The if / elif chain at the top of dispatch.  event_data["point"] and
\* event_data["symbol"] raise KeyError for a keyword that was not passed,
\* before the assignment they are part of.
StateUpdate(self, event_type, data) ==
  IF event_type = MouseMotionEvent
  THEN IF ~HasKey(data, "point")
       THEN [raised |-> TRUE, self |-> self]
       ELSE [raised |-> FALSE, self |-> AfterMotion(self, data.point)]
  ELSE IF event_type = MouseDragEvent
  THEN IF ~HasKey(data, "point")
       THEN [raised |-> TRUE, self |-> self]
       ELSE [raised |-> FALSE,
             self |-> AfterDrag(self, data.point)]
  ELSE IF event_type = KeyPressEvent
  THEN IF ~HasKey(data, "symbol")
       THEN [raised |-> TRUE, self |-> self]
       ELSE [raised |-> FALSE,
             self |-> [self EXCEPT !.pressed_keys =
                         KeysAfterPress(@, data.symbol)]]
  ELSE IF event_type = KeyReleaseEvent
  THEN IF ~HasKey(data, "symbol")
       THEN [raised |-> TRUE, self |-> self]
       ELSE [raised |-> FALSE,
             self |-> [self EXCEPT !.pressed_keys =
                         KeysAfterRelease(@, data.symbol)]]
  ELSE IF event_type = MousePressEvent
  THEN [raised |-> FALSE,
        self |-> [self EXCEPT !.draggable_object_listeners =
                    DragCapture(self.event_listeners, PressPoint(self, data))]]
  ELSE IF event_type = MouseReleaseEvent
  THEN [raised |-> FALSE,
        self |-> [self EXCEPT !.draggable_object_listeners =
                    ReleasedListeners(self)]]
  ELSE [raised |-> FALSE, self |-> self]

\* The list the for loop of dispatch walks.
IterList(self, event_type) ==
  IF event_type = MouseDragEvent THEN self.draggable_object_listeners
  ELSE IF StartsWithMouse(event_type) \/ StartsWithKey(event_type)
  THEN self.event_listeners[event_type]
  ELSE <<>>

\* A plausible slip: the call of the callback wrapped in a try / except that
\* swallows the error.
CallbackRaisesCaught(value) == FALSE

\* listener.callback(listener.mobject, event_data) is called outside any
\* try block: an exception of the callback leaves dispatch at once.
CallbackRaises(value) == value = Raise

\* A plausible slip: the mouse branch hit-testing against the drag point.
PassesHitTestDragPoint(self, event_type, listener) ==
  IF event_type = MouseDragEvent THEN TRUE
  ELSE IF StartsWithMouse(event_type)
  THEN IsPointTouching(listener.mobject, self.mouse_drag_point)
  ELSE TRUE

\* A plausible slip: the key branch hit-testing like the mouse branch.
PassesHitTestKeysToo(self, event_type, listener) ==
  IF event_type = MouseDragEvent THEN TRUE
  ELSE IsPointTouching(listener.mobject, self.mouse_point)

\* A plausible slip: the drag branch hit-testing like the other mouse events.
PassesHitTestAlways(self, event_type, listener) ==
  IF StartsWithMouse(event_type)
  THEN IsPointTouching(listener.mobject, self.mouse_point)
  ELSE TRUE

\* Whether the loop body calls the callback of listener: the drag branch and
\* the key branch call every listener, the mouse branch only those whose
\* mobject touches self.mouse_point.
PassesHitTest(self, event_type, listener) ==
  IF event_type = MouseDragEvent THEN TRUE
  ELSE IF StartsWithMouse(event_type)
  THEN IsPointTouching(listener.mobject, self.mouse_point)
  ELSE TRUE

\* A plausible slip: `== False` in place of `is False`, which 0 passes too.
StopsPropagationFalsy(value) == value \in {"False", "Zero"}

\* A plausible slip: the stop signal never honoured.
StopsPropagationNever(value) == FALSE

\* propagate_event is not None and propagate_event is False
StopsPropagation(value) == value # None /\ value = "False"

\* A plausible slip: None results not overwriting the running result.
NextPropagateKeepNonNull(old, value) == IF value = None THEN old ELSE value

\* propagate_event = listener.callback(listener.mobject, event_data)
NextPropagate(old, value) == value

\* What get_mouse_point, get_mouse_drag_point and is_key_pressed answer.
Queries(self) ==
  [get_mouse_point |-> self.mouse_point,
   get_mouse_drag_point |-> self.mouse_drag_point,
   is_key_pressed |-> [s \in Symbols |-> s \in self.pressed_keys]]

\* The keyword arguments dispatch is called with: mouse events carry a
\* point, key events a symbol, and either may have been left out.
Payloads(event_type) ==
  IF StartsWithMouse(event_type)
  THEN {[point |-> p] : p \in Points} \cup {NoData}
  ELSE {[symbol |-> s] : s \in Symbols} \cup {NoData}

(***************************************************************************)
(* Initial state: EventDispatcher.__init__                                 *)
(***************************************************************************)
Init ==
  /\ event_listeners = [t \in EventType |-> <<>>]
  /\ mouse_point = Origin
  /\ mouse_drag_point = Origin
  /\ pressed_keys = {}
  /\ draggable_object_listeners = <<>>
  /\ pc = "idle"
  /\ idx = 0
  /\ propagate_event = None
  /\ call = NoCall
  /\ pre = [event_listeners |-> [t \in EventType |-> <<>>],
            pressed_keys |-> {}]
  /\ invoked = <<>>
  /\ press_state = "fresh"

(***************************************************************************)
(* Operations                                                              *)
(***************************************************************************)
add_listener(event_listener) ==
  /\ pc = "idle"
  /\ GetListenersCount(event_listeners) < MaxListeners
  /\ event_listeners' = AddListener(event_listeners, event_listener)
  /\ pc' = "done"
  /\ call' = [op |-> "add_listener", listener |-> event_listener,
              outcome |-> "returned"]
  /\ pre' = Before
  /\ UNCHANGED <<mouse_point, mouse_drag_point, pressed_keys,
                 draggable_object_listeners, idx, propagate_event, invoked,
                 press_state>>

remove_listener(event_listener) ==
  /\ pc = "idle"
  /\ LET r == RemoveListener(event_listeners, event_listener)
     IN /\ event_listeners' = r.listeners
        /\ call' = [op |-> "remove_listener", listener |-> event_listener,
                    outcome |-> IF r.raised THEN "raised" ELSE "returned"]
  /\ pc' = "done"
  /\ pre' = Before
  /\ UNCHANGED <<mouse_point, mouse_drag_point, pressed_keys,
                 draggable_object_listeners, idx, propagate_event, invoked,
                 press_state>>

\* dispatch up to the for loop: the state update and propagate_event = None.
dispatch_begin(event_type, data) ==
  /\ pc = "idle"
  /\ LET u == StateUpdate(Self, event_type, data)
     IN /\ mouse_point' = u.self.mouse_point
        /\ mouse_drag_point' = u.self.mouse_drag_point
        /\ pressed_keys' = u.self.pressed_keys
        /\ draggable_object_listeners' = u.self.draggable_object_listeners
        /\ pc' = IF u.raised THEN "done" ELSE "loop"
        /\ idx' = IF u.raised THEN 0 ELSE 1
        /\ call' = [op |-> "dispatch", event_type |-> event_type, data |-> data,
                    outcome |-> IF u.raised THEN "raised" ELSE "running",
                    result |-> None]
        /\ press_state' =
             IF u.raised THEN press_state
             ELSE IF event_type = MousePressEvent THEN "pressed"
             ELSE IF event_type = MouseReleaseEvent THEN "released"
             ELSE press_state
  /\ propagate_event' = None
  /\ pre' = Before
  /\ UNCHANGED <<event_listeners, invoked>>

\* One iteration of the mouse loop whose hit-test fails: the callback is
\* not called.
dispatch_skip ==
  /\ pc = "loop"
  /\ idx <= Len(IterList(Self, call.event_type))
  /\ ~PassesHitTest(Self, call.event_type, IterList(Self, call.event_type)[idx])
  /\ idx' = idx + 1
  /\ UNCHANGED <<event_listeners, mouse_point, mouse_drag_point, pressed_keys,
                 draggable_object_listeners, pc, propagate_event, call, pre,
                 invoked, press_state>>

\* One iteration that calls the callback, which returns value or raises and
\* leaves the registry as listeners_after.
call_callback(value, listeners_after) ==
  /\ pc = "loop"
  /\ idx <= Len(IterList(Self, call.event_type))
  /\ LET listener == IterList(Self, call.event_type)[idx]
     IN /\ PassesHitTest(Self, call.event_type, listener)
        /\ invoked' = Append(invoked, [listener |-> listener,
                                       returned |-> value,
                                       seen |-> Queries(Self)])
  /\ IF CallbackRaises(value)
     THEN /\ pc' = "done"
          /\ idx' = 0
          /\ propagate_event' = None
          /\ call' = [call EXCEPT !.outcome = "raised"]
     ELSE IF StopsPropagation(NextPropagate(propagate_event, value))
     THEN /\ pc' = "done"
          /\ idx' = 0
          /\ propagate_event' = None
          /\ call' = [call EXCEPT !.outcome = "returned",
                                  !.result = NextPropagate(propagate_event, value)]
     ELSE /\ pc' = "loop"
          /\ idx' = idx + 1
          /\ propagate_event' = NextPropagate(propagate_event, value)
          /\ call' = call
  /\ event_listeners' = listeners_after
  /\ UNCHANGED <<mouse_point, mouse_drag_point, pressed_keys,
                 draggable_object_listeners, pre, press_state>>

\* One iteration that calls a callback which leaves the dispatcher alone.
dispatch_invoke(value) == call_callback(value, event_listeners)

\* One iteration that calls a callback which itself calls add_listener or
\* remove_listener, for a listener of the event type being dispatched.
\* The for loop reads the list it walks anew at every step, so the change
\* is in the list the loop goes on with.
dispatch_invoke_mutating(value, op, mobject, callback) ==
  /\ pc = "loop"
  /\ LET event_listener == [event_type |-> call.event_type,
                            mobject |-> mobject, callback |-> callback]
     IN IF op = "add_listener"
        THEN /\ GetListenersCount(event_listeners) < MaxListeners
             /\ call_callback(value, AddListener(event_listeners, event_listener))
        ELSE /\ ListContains(event_listeners[call.event_type], event_listener)
             /\ call_callback(value,
                              RemoveListener(event_listeners, event_listener).listeners)

\* The loop is exhausted: return propagate_event.
dispatch_return ==
  /\ pc = "loop"
  /\ idx > Len(IterList(Self, call.event_type))
  /\ pc' = "done"
  /\ idx' = 0
  /\ propagate_event' = None
  /\ call' = [call EXCEPT !.outcome = "returned", !.result = propagate_event]
  /\ UNCHANGED <<event_listeners, mouse_point, mouse_drag_point, pressed_keys,
                 draggable_object_listeners, pre, invoked, press_state>>

\* The host loop takes the result of the call (or its error) and goes on to
\* its next call.
host_continue ==
  /\ pc = "done"
  /\ pc' = "idle"
  /\ call' = NoCall
  /\ pre' = Before
  /\ invoked' = <<>>
  /\ UNCHANGED <<event_listeners, mouse_point, mouse_drag_point, pressed_keys,
                 draggable_object_listeners, idx, propagate_event, press_state>>

Next ==
  \/ \E event_listener \in EventListner : add_listener(event_listener)
  \/ \E event_listener \in EventListner : remove_listener(event_listener)
  \/ \E event_type \in EventType :
       \E data \in Payloads(event_type) : dispatch_begin(event_type, data)
  \/ dispatch_skip
  \/ \E value \in RetVals \cup {Raise} : dispatch_invoke(value)
  \/ dispatch_return
  \/ host_continue

Spec == Init /\ [][Next]_vars

(***************************************************************************)
(* Vocabulary of the properties                                            *)
(***************************************************************************)
\* A dispatch of event_type is running or has just ended, and its state
\* update went through (no KeyError).
Dispatching(event_type) ==
  /\ pc \in {"loop", "done"}
  /\ call.op = "dispatch"
  /\ call.event_type = event_type
  /\ (pc = "done" /\ call.outcome = "raised" => invoked # <<>>)

\* A dispatch of event_type has returned to the host.
Returned(event_type) ==
  /\ pc = "done"
  /\ call.op = "dispatch"
  /\ call.event_type = event_type
  /\ call.outcome = "returned"

\* The listeners whose callbacks the dispatch has called, in call order.
InvokedListeners == [i \in 1..Len(invoked) |-> invoked[i].listener]

\* No callback of the dispatch has returned False.
NoneReturnedFalse == \A i \in 1..Len(invoked) : invoked[i].returned # "False"

\* The listeners of list whose mobject touches point, in list order.
Touching(list, point) ==
  SelectSeq(list, LAMBDA listener : IsPointTouching(listener.mobject, point))

\* s is the first Len(s) elements of t.
IsPrefix(s, t) == Len(s) <= Len(t) /\ s = SubSeq(t, 1, Len(s))

(***************************************************************************)
(* C1.  In any dispatch call (drag, other mouse, or key), when an invoked  *)
(* callback returns False no candidate after it is invoked in that call    *)
(* and dispatch returns False: the callback that returned False is the     *)
(* last one invoked, the loop is over, and the result is False.            *)
(***************************************************************************)
C1_FalseStopsPropagation ==
  \A i \in 1..Len(invoked) :
    invoked[i].returned = "False" =>
      /\ i = Len(invoked)
      /\ pc = "done"
      /\ call.outcome = "returned"
      /\ call.result = "False"

\* A dispatch ended by a False while a later candidate was still waiting.
C1_Witness ==
  /\ pc = "done"
  /\ call.op = "dispatch"
  /\ invoked # <<>>
  /\ invoked[Len(invoked)].returned = "False"
  /\ LET list == IterList(Self, call.event_type)
     IN \E k \in 1..Len(list) :
          /\ k > Len(invoked)
          /\ PassesHitTest(Self, call.event_type, list[k])

(***************************************************************************)
(* C2.  As claimed: after dispatch(MousePress, point P) the captured drag  *)
(* listeners are the MouseDrag listeners whose mobject touches P, the      *)
(* point of the press payload, in registration order.                      *)
(***************************************************************************)
C2_CaptureAtPayloadPoint ==
  Returned(MousePressEvent) /\ HasKey(call.data, "point") =>
    draggable_object_listeners =
      Touching(event_listeners[MouseDragEvent], call.data.point)

(***************************************************************************)
(* C2, amended.  After dispatch(MousePress, ...) the captured drag         *)
(* listeners are the MouseDrag listeners, registered when dispatch was     *)
(* called, whose mobject touches mouse_point (the point of the most recent *)
(* MouseMotion), in registration order, whatever point the press carries.  *)
(***************************************************************************)
C2_CaptureAtMousePoint ==
  Dispatching(MousePressEvent) =>
    draggable_object_listeners =
      Touching(pre.event_listeners[MouseDragEvent], mouse_point)

\* A press whose payload point and mouse_point select different listeners.
C2_Witness ==
  /\ Returned(MousePressEvent)
  /\ HasKey(call.data, "point")
  /\ call.data.point # mouse_point
  /\ Len(event_listeners[MouseDragEvent]) = 2
  /\ Len(draggable_object_listeners) = 1

(***************************************************************************)
(* C3.  Drag stickiness against the per-event hit-test.  A MouseDrag       *)
(* dispatch calls the captured drag listeners in order without testing     *)
(* them again (all of them, unless a callback returned False or raised),   *)
(* also those whose mobject does not touch the drag point or mouse_point;  *)
(* a MouseMotion dispatch at Q calls no listener whose mobject does not    *)
(* touch Q.                                                                *)
(***************************************************************************)
C3_DragSticksMotionRetests ==
  /\ Dispatching(MouseDragEvent) =>
       /\ IsPrefix(InvokedListeners, draggable_object_listeners)
       /\ (Returned(MouseDragEvent) /\ NoneReturnedFalse =>
             InvokedListeners = draggable_object_listeners)
  /\ Dispatching(MouseMotionEvent) =>
       \A i \in 1..Len(invoked) :
         IsPointTouching(invoked[i].listener.mobject, call.data.point)

\* A drag at Q, after a motion to Q, that called a captured listener whose
\* mobject does not touch Q, while a motion listener of that mobject is
\* registered.
C3_Witness ==
  /\ Returned(MouseDragEvent)
  /\ call.data.point = mouse_point
  /\ \E i \in 1..Len(invoked) :
       /\ ~IsPointTouching(invoked[i].listener.mobject, mouse_point)
       /\ \E k \in 1..Len(event_listeners[MouseMotionEvent]) :
            event_listeners[MouseMotionEvent][k].mobject = invoked[i].listener.mobject

(***************************************************************************)
(* C4.  After a MouseRelease dispatch, and on a fresh dispatcher, a        *)
(* dispatch(MouseDrag, point Q) calls no callback and returns None, until  *)
(* a MousePress is dispatched.                                             *)
(***************************************************************************)
C4_NoDragWithoutPress ==
  /\ pc \in {"loop", "done"}
  /\ call.op = "dispatch"
  /\ call.event_type = MouseDragEvent
  /\ HasKey(call.data, "point")
  /\ press_state # "pressed"
  => /\ invoked = <<>>
     /\ (pc = "done" => call.outcome = "returned" /\ call.result = None)

\* A drag after a release, at a point that a registered drag listener touches.
C4_Witness ==
  /\ Returned(MouseDragEvent)
  /\ press_state = "released"
  /\ \E k \in 1..Len(event_listeners[MouseDragEvent]) :
       /\ IsPointTouching(event_listeners[MouseDragEvent][k].mobject, call.data.point)
       /\ IsPointTouching(event_listeners[MouseDragEvent][k].mobject, mouse_point)

(***************************************************************************)
(* C5.  As claimed: for every reachable registry, also one that already    *)
(* holds a listener equal to e, add(e) followed by remove(e), called by    *)
(* the host between two calls, leaves count() at its value before the add. *)
(***************************************************************************)
C5_AddRemoveRestoresCount ==
  pc = "idle" =>
  \A e \in EventListner :
    GetListenersCount(RemoveListener(AddListener(event_listeners, e), e).listeners)
      = GetListenersCount(event_listeners)

(***************************************************************************)
(* C5, amended.  For every reachable registry and every listener e,        *)
(* add(e) followed by remove(e) leaves count() at its value before the add *)
(* minus the number of listeners equal to e registered before the add: at  *)
(* the value before the add exactly when no equal listener was registered. *)
(***************************************************************************)
C5_AddRemoveDropsEqualListeners ==
  pc = "idle" =>
  \A e \in EventListner :
    LET after == RemoveListener(AddListener(event_listeners, e), e)
    IN /\ ~after.raised
       /\ GetListenersCount(after.listeners)
            = GetListenersCount(event_listeners)
                - Occurrences(event_listeners[e.event_type], e)

\* A remove_listener(e) has run on a registry whose list ended with two
\* listeners equal to e (e registered, then added again), and count() is
\* two lower than before the remove.
C5_Witness ==
  /\ pc = "done"
  /\ call.op = "remove_listener"
  /\ LET list == pre.event_listeners[call.listener.event_type]
     IN /\ Len(list) >= 2
        /\ list[Len(list)] = call.listener
        /\ list[Len(list) - 1] = call.listener
  /\ GetListenersCount(event_listeners)
       = GetListenersCount(pre.event_listeners) - 2

(***************************************************************************)
(* C6.  remove(e) of a listener that is not registered raises no error     *)
(* and leaves the registry, every event type's list, unchanged; and after  *)
(* any remove(e) the listener is not registered, so that this covers a     *)
(* second remove(e) right after a first.                                   *)
(***************************************************************************)
C6_RemoveAbsentIsNoOp ==
  pc = "done" /\ call.op = "remove_listener" =>
    /\ ~ListContains(event_listeners[call.listener.event_type], call.listener)
    /\ call.outcome = "returned"
    /\ (~ListContains(pre.event_listeners[call.listener.event_type], call.listener)
          => event_listeners = pre.event_listeners)

\* A remove of a listener that is not in a registry that holds others.
C6_Witness ==
  /\ pc = "done"
  /\ call.op = "remove_listener"
  /\ ~ListContains(pre.event_listeners[call.listener.event_type], call.listener)
  /\ Len(pre.event_listeners[call.listener.event_type]) > 0
  /\ GetListenersCount(event_listeners) = MaxListeners

\* The last value of the callbacks' return values that is not None, or None.
RECURSIVE LastNonNull(_)
LastNonNull(log) ==
  IF log = <<>> THEN None
  ELSE IF log[Len(log)].returned # None THEN log[Len(log)].returned
  ELSE LastNonNull(SubSeq(log, 1, Len(log) - 1))

(***************************************************************************)
(* C7.  As claimed: when no callback returned False, dispatch returns the  *)
(* last value that is not None among the values its callbacks returned     *)
(* (True then None gives True), or None.                                   *)
(***************************************************************************)
C7_ReturnsLastNonNull ==
  pc = "done" /\ call.op = "dispatch" /\ call.outcome = "returned"
    /\ NoneReturnedFalse
  => call.result = LastNonNull(invoked)

(***************************************************************************)
(* C7, amended.  When no callback returned False, dispatch returns the     *)
(* value returned by the last callback it invoked, None included (True     *)
(* then None gives None), or None when it invoked no callback.             *)
(***************************************************************************)
C7_ReturnsLastValue ==
  pc = "done" /\ call.op = "dispatch" /\ call.outcome = "returned"
    /\ NoneReturnedFalse
  => call.result =
       IF invoked = <<>> THEN None ELSE invoked[Len(invoked)].returned

\* Callbacks returned True and then None, and dispatch returned None.
C7_Witness ==
  /\ pc = "done"
  /\ call.op = "dispatch"
  /\ call.outcome = "returned"
  /\ Len(invoked) = 2
  /\ invoked[1].returned = "True"
  /\ invoked[2].returned = None
  /\ call.result = None

(***************************************************************************)
(* C8.  As claimed: dispatch(MousePress, point X) calls the MousePress     *)
(* listeners whose mobject touches X, the point of the press: a press at   *)
(* (5,5) that follows a motion at (0,0) does not call L1 of T1.            *)
(***************************************************************************)
C8_PressTestsPayloadPoint ==
  Returned(MousePressEvent) /\ HasKey(call.data, "point") /\ NoneReturnedFalse =>
    InvokedListeners = Touching(event_listeners[MousePressEvent], call.data.point)

(***************************************************************************)
(* C8, amended.  dispatch(MousePress, point X) calls the MousePress        *)
(* listeners whose mobject touches mouse_point, the point of the most      *)
(* recent MouseMotion, once per registration and in order (all of them     *)
(* unless a callback returned False or raised), whatever X is: after a     *)
(* motion at (0,0), a press at (0,0) calls L1 of T1 once, and so does a    *)
(* following press at (5,5).                                               *)
(***************************************************************************)
C8_PressTestsMousePoint ==
  Dispatching(MousePressEvent) =>
    /\ IsPrefix(InvokedListeners,
                Touching(event_listeners[MousePressEvent], mouse_point))
    /\ (Returned(MousePressEvent) /\ NoneReturnedFalse =>
          InvokedListeners =
            Touching(event_listeners[MousePressEvent], mouse_point))

\* With mouse_point at (0,0), a press at (5,5) has called the listener of
\* T1, which does not touch (5,5), once.
C8_Witness ==
  /\ Returned(MousePressEvent)
  /\ mouse_point = Origin
  /\ HasKey(call.data, "point")
  /\ call.data.point = FarPoint
  /\ Len(invoked) = 1
  /\ invoked[1].listener.mobject = "T1"
  /\ ~IsPointTouching("T1", FarPoint)

(***************************************************************************)
(* C9.  pressed_keys follows the key events as a set.  Once the state      *)
(* update of dispatch(KeyPress, symbol s) has run, is_key_pressed(s) is    *)
(* true; once that of dispatch(KeyRelease, symbol s) has run it is false;  *)
(* a KeyRelease of a symbol that is not pressed raises no error and leaves *)
(* pressed_keys unchanged; no key event changes is_key_pressed of another  *)
(* symbol.                                                                 *)
(***************************************************************************)
C9_PressedKeysTrackKeyEvents ==
  /\ Dispatching(KeyPressEvent) =>
       /\ Queries(Self).is_key_pressed[call.data.symbol]
       /\ \A s \in Symbols \ {call.data.symbol} :
            Queries(Self).is_key_pressed[s] <=> s \in pre.pressed_keys
  /\ Dispatching(KeyReleaseEvent) =>
       /\ ~Queries(Self).is_key_pressed[call.data.symbol]
       /\ \A s \in Symbols \ {call.data.symbol} :
            Queries(Self).is_key_pressed[s] <=> s \in pre.pressed_keys
       /\ (call.data.symbol \notin pre.pressed_keys =>
             pressed_keys = pre.pressed_keys)
  /\ pc = "done" /\ call.op = "dispatch" /\ StartsWithKey(call.event_type)
       /\ HasKey(call.data, "symbol") /\ invoked = <<>>
     => call.outcome = "returned"

\* A release of a symbol that was not pressed, while another one is.
C9_Witness ==
  /\ Returned(KeyReleaseEvent)
  /\ call.data.symbol \notin pre.pressed_keys
  /\ pre.pressed_keys # {}
  /\ pressed_keys = pre.pressed_keys

(***************************************************************************)
(* C10.  The state update of a dispatch is complete before its first       *)
(* callback runs.  Every callback of the dispatch, and the host once it    *)
(* has returned, gets from get_mouse_point, get_mouse_drag_point and       *)
(* is_key_pressed the values that include the update for this event, and   *)
(* the same values from the first callback to the last.                    *)
(***************************************************************************)
IncludesUpdate(answers) ==
  /\ call.event_type = MouseMotionEvent => answers.get_mouse_point = call.data.point
  /\ call.event_type = MouseDragEvent => answers.get_mouse_drag_point = call.data.point
  /\ call.event_type = KeyPressEvent => answers.is_key_pressed[call.data.symbol]
  /\ call.event_type = KeyReleaseEvent => ~answers.is_key_pressed[call.data.symbol]

C10_CallbacksSeeUpdatedState ==
  \A event_type \in EventType :
    Dispatching(event_type) =>
      /\ IncludesUpdate(Queries(Self))
      /\ \A i \in 1..Len(invoked) :
           /\ IncludesUpdate(invoked[i].seen)
           /\ invoked[i].seen = Queries(Self)

\* Two callbacks of a KeyPress of a symbol that was not pressed before have
\* both seen it pressed.
C10_Witness ==
  /\ Returned(KeyPressEvent)
  /\ call.data.symbol \notin pre.pressed_keys
  /\ Len(invoked) = 2
  /\ \A i \in 1..2 : invoked[i].seen.is_key_pressed[call.data.symbol]

(***************************************************************************)
(* C11.  Registration order is dispatch order.  add_listener appends the   *)
(* listener to the end of the list of its event type, also when it is      *)
(* there already, and one dispatch calls the callbacks in list order, one  *)
(* call per occurrence: the listeners called so far are the first ones of  *)
(* the candidates (for a key event the whole list, for a mouse event its   *)
(* touching entries, for a drag the captured entries), and all of them     *)
(* once the dispatch returned without a False.                             *)
(***************************************************************************)
Candidates(event_type) ==
  IF event_type = MouseDragEvent THEN draggable_object_listeners
  ELSE IF StartsWithMouse(event_type)
  THEN Touching(event_listeners[event_type], mouse_point)
  ELSE event_listeners[event_type]

C11_RegistrationOrderIsDispatchOrder ==
  /\ pc = "done" /\ call.op = "add_listener" =>
       event_listeners[call.listener.event_type] =
         Append(pre.event_listeners[call.listener.event_type], call.listener)
  /\ \A event_type \in EventType :
       Dispatching(event_type) =>
         /\ IsPrefix(InvokedListeners, Candidates(event_type))
         /\ Returned(event_type) /\ NoneReturnedFalse =>
              InvokedListeners = Candidates(event_type)

\* A key dispatch has called the listener of T2 and then the listener of T1,
\* the order in which they were added.
C11_Witness ==
  /\ Returned(KeyPressEvent)
  /\ Len(invoked) = 2
  /\ invoked[1].listener.mobject = "T2"
  /\ invoked[2].listener.mobject = "T1"
  /\ event_listeners[KeyPressEvent] = InvokedListeners

(***************************************************************************)
(* The registry on its own: remove_listener and add_listener applied to    *)
(* registries that add_listener calls can have built, with up to           *)
(* MaxRegistryLen entries in one list and an entry in a second list.       *)
(***************************************************************************)
MaxRegistryLen == 4

SeqsUpTo(S, n) == UNION {[1..k -> S] : k \in 0..n}

\* The listeners of the registry runs: two callbacks, so that a list can
\* hold three different entries beside the one removed.
RegistryCallbacks == Callbacks \cup {"cb_other"}

RegistryListeners ==
  [event_type : EventType, mobject : Mobjects, callback : RegistryCallbacks]

ListenersOf(event_type) ==
  {e \in RegistryListeners : e.event_type = event_type}

InitRegistry ==
  /\ \E t \in EventType, u \in EventType :
       /\ t # u
       /\ \E list \in SeqsUpTo(ListenersOf(t), MaxRegistryLen),
             other \in SeqsUpTo(ListenersOf(u) \cap EventListner, 1) :
            event_listeners =
              [x \in EventType |-> IF x = t THEN list
                                   ELSE IF x = u THEN other ELSE <<>>]
  /\ mouse_point = Origin
  /\ mouse_drag_point = Origin
  /\ pressed_keys = {}
  /\ draggable_object_listeners = <<>>
  /\ pc = "idle"
  /\ idx = 0
  /\ propagate_event = None
  /\ call = NoCall
  /\ pre = Before
  /\ invoked = <<>>
  /\ press_state = "fresh"

NextRegistry ==
  \/ \E event_listener \in RegistryListeners : add_listener(event_listener)
  \/ \E event_listener \in RegistryListeners : remove_listener(event_listener)
  \/ host_continue

SpecRegistry == InitRegistry /\ [][NextRegistry]_vars

(***************************************************************************)
(* C12.  remove_listener(e) returns with every occurrence of e gone from   *)
(* the list of e's event type, the other entries of that list in the       *)
(* order they had, and the lists of all other event types as they were.    *)
(***************************************************************************)
C12_RemoveDropsAllKeepsOrder ==
  pc = "done" /\ call.op = "remove_listener" =>
    /\ call.outcome = "returned"
    /\ event_listeners[call.listener.event_type] =
         SelectSeq(pre.event_listeners[call.listener.event_type],
                   LAMBDA x : x # call.listener)
    /\ \A event_type \in EventType \ {call.listener.event_type} :
         event_listeners[event_type] = pre.event_listeners[event_type]

\* A removal took two occurrences out of a list from between two other
\* entries, the first of them in front of the first occurrence, while
\* another list had an entry.
C12_Witness ==
  /\ pc = "done"
  /\ call.op = "remove_listener"
  /\ LET before == pre.event_listeners[call.listener.event_type]
     IN /\ Len(before) = MaxRegistryLen
        /\ Occurrences(before, call.listener) >= 2
        /\ before[1] # call.listener
        /\ before[Len(before)] # call.listener
        /\ Len(event_listeners[call.listener.event_type]) = 2
        /\ before[1] # before[Len(before)]
  /\ \E event_type \in EventType \ {call.listener.event_type} :
       event_listeners[event_type] # <<>>

(***************************************************************************)
(* C13.  A dispatch whose payload lacks the field of its event type (the   *)
(* point of a MouseMotion or MouseDrag, the symbol of a KeyPress or        *)
(* KeyRelease) fails at once: the call is over with an error, no field of  *)
(* the dispatcher has changed and no callback has been called.             *)
(***************************************************************************)
RequiredField(event_type) ==
  IF event_type \in {MouseMotionEvent, MouseDragEvent} THEN "point"
  ELSE IF event_type \in {KeyPressEvent, KeyReleaseEvent} THEN "symbol"
  ELSE "nothing"

LacksRequiredField(c) ==
  /\ c.op = "dispatch"
  /\ RequiredField(c.event_type) # "nothing"
  /\ ~HasKey(c.data, RequiredField(c.event_type))

C13_MissingFieldFailsFirst ==
  [][pc = "idle" /\ LacksRequiredField(call') =>
       /\ pc' = "done"
       /\ call'.outcome = "raised"
       /\ invoked' = <<>>
       /\ UNCHANGED <<event_listeners, mouse_point, mouse_drag_point,
                      pressed_keys, draggable_object_listeners>>]_vars

\* A KeyPress without a symbol has failed although a listener was waiting
\* for it.
C13_Witness ==
  /\ pc = "done"
  /\ LacksRequiredField(call)
  /\ call.event_type = KeyPressEvent
  /\ call.outcome = "raised"
  /\ event_listeners[KeyPressEvent] # <<>>
  /\ invoked = <<>>

(***************************************************************************)
(* C14.  When a callback raises, the dispatch ends with that error: the    *)
(* callback that raised is the last one called, it was called once (the    *)
(* calls made are the first candidates, each once), and the state update   *)
(* of the dispatch stays applied: the mouse point, drag point and pressed  *)
(* keys include it, a press has captured and a release has cleared.        *)
(***************************************************************************)
UpdateStaysApplied ==
  /\ IncludesUpdate(Queries(Self))
  /\ call.event_type = MousePressEvent =>
       draggable_object_listeners =
         Touching(event_listeners[MouseDragEvent], mouse_point)
  /\ call.event_type = MouseReleaseEvent => draggable_object_listeners = <<>>

C14_RaiseEndsDispatchKeepsUpdate ==
  \A i \in 1..Len(invoked) :
    invoked[i].returned = Raise =>
      /\ i = Len(invoked)
      /\ pc = "done"
      /\ call.outcome = "raised"
      /\ IsPrefix(InvokedListeners, Candidates(call.event_type))
      /\ UpdateStaysApplied

\* The first callback of a KeyPress of a new symbol has raised with a second
\* listener waiting, and the symbol is pressed.
C14_Witness ==
  /\ pc = "done"
  /\ call.op = "dispatch"
  /\ call.event_type = KeyPressEvent
  /\ call.outcome = "raised"
  /\ Len(invoked) = 1
  /\ invoked[1].returned = Raise
  /\ Len(event_listeners[KeyPressEvent]) = 2
  /\ call.data.symbol \notin pre.pressed_keys
  /\ call.data.symbol \in pressed_keys

(***************************************************************************)
(* C15.  As claimed: a dispatch, with the field its event type needs, of   *)
(* an event type that has no registered listener is not an error; it       *)
(* calls no callback, returns None and still applies the state update of   *)
(* that event type.                                                        *)
(***************************************************************************)
C15_EmptyCategoryCallsNothing ==
  /\ pc = "done"
  /\ call.op = "dispatch"
  /\ ~LacksRequiredField(call)
  /\ event_listeners[call.event_type] = <<>>
  => /\ call.outcome = "returned"
     /\ call.result = None
     /\ invoked = <<>>
     /\ UpdateStaysApplied

(***************************************************************************)
(* C16.  In a MouseMotion, MousePress or MouseRelease dispatch a listener  *)
(* is called only if its mobject touches the mouse point (the point of     *)
(* the last MouseMotion, not the drag point): the listeners called are     *)
(* the first of the touching entries of the list, and all of them when     *)
(* the dispatch returned without a False.  In a KeyPress or KeyRelease     *)
(* dispatch the same holds of the whole list, no hit-test made.            *)
(***************************************************************************)
HitTestedEvents == {MouseMotionEvent, MousePressEvent, MouseReleaseEvent}

KeyEvents == {KeyPressEvent, KeyReleaseEvent}

C16_MouseHitTestedKeysNot ==
  /\ \A event_type \in HitTestedEvents :
       Dispatching(event_type) =>
         /\ \A i \in 1..Len(invoked) :
              IsPointTouching(invoked[i].listener.mobject, mouse_point)
         /\ IsPrefix(InvokedListeners,
                     Touching(event_listeners[event_type], mouse_point))
         /\ Returned(event_type) /\ NoneReturnedFalse =>
              InvokedListeners =
                Touching(event_listeners[event_type], mouse_point)
  /\ \A event_type \in KeyEvents :
       Dispatching(event_type) =>
         /\ IsPrefix(InvokedListeners, event_listeners[event_type])
         /\ Returned(event_type) /\ NoneReturnedFalse =>
              InvokedListeners = event_listeners[event_type]

\* With the mouse at FarPoint and the drag point at Origin, a MouseRelease
\* has passed over the listener of T1, which touches only Origin, and has
\* called the listener of T2 behind it.
C16_Witness ==
  /\ Returned(MouseReleaseEvent)
  /\ mouse_point = FarPoint
  /\ mouse_drag_point = Origin
  /\ Len(event_listeners[MouseReleaseEvent]) = 2
  /\ event_listeners[MouseReleaseEvent][1].mobject = "T1"
  /\ Len(invoked) = 1
  /\ invoked[1].listener = event_listeners[MouseReleaseEvent][2]
  /\ invoked[1].listener.mobject = "T2"

\* With the mouse at FarPoint a KeyPress has called the listener of T1.
C16_KeyWitness ==
  /\ Returned(KeyPressEvent)
  /\ mouse_point = FarPoint
  /\ invoked # <<>>
  /\ invoked[1].listener.mobject = "T1"

(***************************************************************************)
(* C17.  Only False stops propagation.  When the last callback called has  *)
(* returned True, None or any other value that is not False, the dispatch  *)
(* goes on with that value as its running result: either it is still in    *)
(* its loop, or it is over because every candidate has been called, and    *)
(* then that value is what it returned.                                    *)
(***************************************************************************)
C17_OnlyFalseStops ==
  call.op = "dispatch" /\ invoked # <<>>
    /\ invoked[Len(invoked)].returned \notin {"False", Raise} =>
      \/ /\ pc = "loop"
         /\ propagate_event = invoked[Len(invoked)].returned
      \/ /\ pc = "done"
         /\ call.outcome = "returned"
         /\ call.result = invoked[Len(invoked)].returned
         /\ InvokedListeners = Candidates(call.event_type)

\* A key dispatch whose first callback returned 0 and whose second returned
\* True has called both.
C17_Witness ==
  /\ Returned(KeyReleaseEvent)
  /\ Len(invoked) = 2
  /\ invoked[1].returned = "Zero"
  /\ invoked[2].returned = "True"
  /\ call.result = "True"

(***************************************************************************)
(* The dispatcher with callbacks that register and unregister listeners    *)
(* while a dispatch is under way.                                          *)
(***************************************************************************)
NextReentrant ==
  \/ Next
  \/ \E value \in RetVals \cup {Raise}, op \in {"add_listener", "remove_listener"},
        mobject \in Mobjects, callback \in Callbacks :
       dispatch_invoke_mutating(value, op, mobject, callback)

SpecReentrant == Init /\ [][NextReentrant]_vars

(***************************************************************************)
(* C18.  As claimed: a dispatch calls callbacks over the candidates as     *)
(* they were before its first callback ran.  With callbacks that add or    *)
(* remove listeners of the event type being dispatched, the listeners      *)
(* called are the first of the candidates of the registry the call         *)
(* began with, and all of them when the dispatch returned without a        *)
(* False: none is skipped and none added meanwhile is called.              *)
(***************************************************************************)
CandidatesAtStart(event_type) ==
  IF event_type = MouseDragEvent THEN draggable_object_listeners
  ELSE IF StartsWithMouse(event_type)
  THEN Touching(pre.event_listeners[event_type], mouse_point)
  ELSE pre.event_listeners[event_type]

C18_DispatchOverSnapshot ==
  \A event_type \in EventType :
    Dispatching(event_type) =>
      /\ IsPrefix(InvokedListeners, CandidatesAtStart(event_type))
      /\ Returned(event_type) /\ NoneReturnedFalse =>
           InvokedListeners = CandidatesAtStart(event_type)

(***************************************************************************)
(* C19.  Frame of each operation, callbacks leaving the dispatcher alone.  *)
(* The captured drag listeners change only in the state update of a        *)
(* MousePress or MouseRelease dispatch.  The registry, and with it the     *)
(* listener count, changes only in add_listener and remove_listener, and   *)
(* then only the list of the listener's event type, with every other       *)
(* field left as it was.  The mouse point changes only in a MouseMotion    *)
(* dispatch, the drag point only in a MouseDrag dispatch, the pressed      *)
(* keys only in a KeyPress or KeyRelease dispatch.                         *)
(***************************************************************************)
StartsDispatchOf(types) ==
  pc = "idle" /\ call'.op = "dispatch" /\ call'.event_type \in types

StartsRegistryCall ==
  pc = "idle" /\ call'.op \in {"add_listener", "remove_listener"}

C19_Frames ==
  [][/\ draggable_object_listeners' # draggable_object_listeners =>
          StartsDispatchOf({MousePressEvent, MouseReleaseEvent})
     /\ mouse_point' # mouse_point => StartsDispatchOf({MouseMotionEvent})
     /\ mouse_drag_point' # mouse_drag_point =>
          StartsDispatchOf({MouseDragEvent})
     /\ pressed_keys' # pressed_keys =>
          StartsDispatchOf({KeyPressEvent, KeyReleaseEvent})
     /\ event_listeners' # event_listeners
          \/ GetListenersCount(event_listeners') # GetListenersCount(event_listeners)
          => StartsRegistryCall
     /\ StartsRegistryCall =>
          /\ \A event_type \in EventType \ {call'.listener.event_type} :
               event_listeners'[event_type] = event_listeners[event_type]
          /\ UNCHANGED <<mouse_point, mouse_drag_point, pressed_keys,
                         draggable_object_listeners>>]_vars

\* A MouseMotion to FarPoint has called a callback and returned with the
\* drag point still at Origin, a listener captured and a key pressed.
C19_Witness ==
  /\ Returned(MouseMotionEvent)
  /\ call.data.point = FarPoint
  /\ invoked # <<>>
  /\ mouse_point = FarPoint
  /\ mouse_drag_point = Origin
  /\ draggable_object_listeners # <<>>
  /\ pressed_keys # {}

(***************************************************************************)
(* C20.  As claimed: a listener that has been removed and not added again  *)
(* is never called.  Every captured drag listener is at all times an       *)
(* entry of the MouseDrag list of the registry, and every listener a       *)
(* dispatch has called is an entry of the list of its event type.          *)
(***************************************************************************)
C20_RemovedListenerNeverCalled ==
  /\ \A i \in 1..Len(draggable_object_listeners) :
       ListContains(event_listeners[MouseDragEvent],
                    draggable_object_listeners[i])
  /\ \A i \in 1..Len(invoked) :
       ListContains(event_listeners[invoked[i].listener.event_type],
                    invoked[i].listener)

\* What the code does in place of it: a MouseDrag dispatch has called a
\* listener that is in no list of the registry.
C20_RemovedListenerCalled ==
  /\ Dispatching(MouseDragEvent)
  /\ invoked # <<>>
  /\ ~ListContains(event_listeners[MouseDragEvent], invoked[1].listener)

====
